---- MODULE Spec2Model ----
(***************************************************************************)
(* A model of fastclient/client.py: the api_call decorator, the parameter  *)
(* plan (ApiMethodParams), the lazily built type adapters                  *)
(* (ApiMethodTypeAdapters) and the wrapper that validates, builds, sends   *)
(* and decodes one call.                                                   *)
(*                                                                         *)
(* Python strings that the code assembles (the URL, the query string, the  *)
(* JSON body) are sequences of tokens, so that formatting and encoding are *)
(* computed and not assumed.  Python dicts are sequences of key/value      *)
(* pairs, because the code depends on their insertion order.               *)
(***************************************************************************)
EXTENDS Integers, Sequences, FiniteSets, TLC

(***************************************************************************)
(* Values a caller can pass, and Python's None.                            *)
(***************************************************************************)
None == [ty |-> "none", n |-> 0, s |-> ""]
IntV(n) == [ty |-> "int", n |-> n, s |-> ""]
StrV(s) == [ty |-> "str", n |-> 0, s |-> s]
ModelV(cls, k) == [ty |-> "model", n |-> k, s |-> cls]

Pair(k, v) == [k |-> k, v |-> v]

RECURSIVE Has(_, _)
Has(m, k) ==
  IF m = <<>> THEN FALSE
  ELSE IF Head(m).k = k THEN TRUE ELSE Has(Tail(m), k)

RECURSIVE Get(_, _)
Get(m, k) ==
  IF m = <<>> THEN None
  ELSE IF Head(m).k = k THEN Head(m).v ELSE Get(Tail(m), k)

RECURSIVE Keys(_)
Keys(m) == IF m = <<>> THEN <<>> ELSE <<Head(m).k>> \o Keys(Tail(m))

(***************************************************************************)
(* Declarations: one annotated parameter, one URL template, one method.    *)
(* marker is the last element of the annotation's metadata: "Query",       *)
(* "Path", "Header", "Cookie", "Body", or "none" when there is no binding  *)
(* marker.  gt is the Gt(0) constraint of PositiveInt.                     *)
(***************************************************************************)
Param(name, ty, gt, marker, alias) ==
  [name |-> name, ty |-> ty, gt |-> gt, marker |-> marker, alias |-> alias]

Lit(s) == [t |-> "lit", s |-> s]
Ph(s) == [t |-> "ph", s |-> s]

Endpoint(fn, method, url, params, ret) ==
  [fn |-> fn, method |-> method, url |-> url, params |-> params, ret |-> ret]

NoEndpoint == Endpoint("", "", <<>>, <<>>, "absent")

ModelTypes == {"CreatePostRequest", "CreateCommentRequest", "QueryComments"}

\* client_test.py, TestClient.query_params_using_kwargs
QueryParamsUsingKwargs ==
  Endpoint("query_params_using_kwargs", "GET", <<Lit("/comments")>>,
           <<Param("qs_test_id", "int", TRUE, "Query", "testID")>>, "Response")

\* client_test.py, TestClient.path_params_using_kwargs
PathParamsUsingKwargs ==
  Endpoint("path_params_using_kwargs", "GET",
           <<Lit("/posts/"), Ph("post_id"), Lit("/comments")>>,
           <<Param("post_id", "int", TRUE, "Path", "")>>, "Response")

\* client_test.py, TestClient.create_post (test_request_body_with_model)
CreatePost ==
  Endpoint("create_post", "GET", <<Lit("/posts")>>,
           <<Param("post", "CreatePostRequest", FALSE, "none", "")>>, "Response")

\* client_test.py, TestClient.create_post_with_comment (multiple models)
CreatePostWithComment ==
  Endpoint("create_post_with_comment", "GET", <<Lit("/posts")>>,
           <<Param("post", "CreatePostRequest", FALSE, "none", ""),
             Param("comment", "CreateCommentRequest", FALSE, "none", "")>>,
           "Response")

\* client_test.py, TestClient.create_post_with_comment (explicit Body())
CreatePostWithCommentExplicit ==
  Endpoint("create_post_with_comment_explicit", "GET", <<Lit("/posts")>>,
           <<Param("post", "CreatePostRequest", FALSE, "none", ""),
             Param("comment", "CreateCommentRequest", FALSE, "Body", "")>>,
           "Response")

\* a body parameter behind a path parameter, its Body marker carrying a
\* serialization alias; the declared return type is a pydantic model
AddComment ==
  Endpoint("add_comment", "POST",
           <<Lit("/posts/"), Ph("post_id"), Lit("/comments")>>,
           <<Param("post_id", "int", TRUE, "Path", ""),
             Param("comment", "CreateCommentRequest", FALSE, "Body", "commentData")>>,
           "Post")

\* a Header-bound parameter next to a Path-bound one; returns the JSON mapping
GetPost ==
  Endpoint("get_post", "GET", <<Lit("/posts/"), Ph("post_id")>>,
           <<Param("post_id", "int", TRUE, "Path", ""),
             Param("x_token", "str", FALSE, "Header", "")>>, "dict")

\* a placeholder with no Path-bound parameter behind it, a Cookie parameter
\* and a constrained parameter with no binding marker
ListPosts ==
  Endpoint("list_posts", "GET", <<Lit("/users/"), Ph("user_id"), Lit("/posts")>>,
           <<Param("page", "int", TRUE, "Query", ""),
             Param("session", "str", FALSE, "Cookie", ""),
             Param("limit", "int", TRUE, "none", "")>>, "dict")

\* client_test.py, TestClient.get_comments_by (test_query_params_using_model)
GetCommentsBy ==
  Endpoint("get_comments_by", "GET", <<Lit("/comments")>>,
           <<Param("filters", "QueryComments", FALSE, "Query", "")>>, "Response")

\* methods whose return annotation is absent, an unsupported class, or a
\* typing form that is not a class
NoReturnHint ==
  Endpoint("no_return_hint", "GET", <<Lit("/posts")>>, <<>>, "absent")

IntReturnHint ==
  Endpoint("int_return_hint", "GET", <<Lit("/posts")>>, <<>>, "int")

OptionalReturnHint ==
  Endpoint("optional_return_hint", "GET", <<Lit("/posts")>>, <<>>, "Optional[Post]")

Endpoints ==
  {QueryParamsUsingKwargs, PathParamsUsingKwargs, CreatePost,
   CreatePostWithComment, CreatePostWithCommentExplicit, AddComment, GetPost,
   ListPosts, GetCommentsBy, NoReturnHint, IntReturnHint, OptionalReturnHint}

(***************************************************************************)
(* The return-type check of api_call.decorator.                            *)
(***************************************************************************)
\* get_type_hints(request_func).get("return"): None when not annotated
ReturnHint(d) == IF d.ret = "absent" THEN "None" ELSE d.ret

\* issubclass() raises TypeError unless its first argument is a class
IsClass(rt) == rt \in {"Post", "dict", "Response", "int"}

IsSubclass(rt, base) ==
  \/ base = "BaseModel" /\ rt = "Post"
  \/ base = "dict" /\ rt = "dict"
  \/ base = "Response" /\ rt = "Response"

valid_return_types == <<"BaseModel", "dict", "Response">>

IsValidReturnType(rt) ==
  \E i \in 1..Len(valid_return_types) : IsSubclass(rt, valid_return_types[i])

(***************************************************************************)
(* ApiMethodParams.from_api_method: the match statement, case by case.     *)
(***************************************************************************)
EmptyParams == [body |-> <<>>, path |-> <<>>, query |-> <<>>, header |-> <<>>]

\* the group a parameter lands in; "raise" for the NotImplementedError case,
\* "dropped" when no case stores it
Classify(p) ==
  IF p.marker = "Query" /\ p.ty \in ModelTypes THEN "raise"
  ELSE IF p.marker \in {"Query", "Path", "Header"} THEN
         (CASE p.marker = "Query" -> "query"
            [] p.marker = "Path" -> "path"
            [] p.marker = "Header" -> "header")
  ELSE IF p.marker = "Cookie" THEN "dropped"
  ELSE IF p.marker = "Body" THEN "body"
  ELSE IF p.marker = "none" /\ ~p.gt THEN "body"
  ELSE "dropped"

Store(ap, p) ==
  CASE Classify(p) = "body" -> [ap EXCEPT !.body = Append(@, p)]
    [] Classify(p) = "path" -> [ap EXCEPT !.path = Append(@, p)]
    [] Classify(p) = "query" -> [ap EXCEPT !.query = Append(@, p)]
    [] Classify(p) = "header" -> [ap EXCEPT !.header = Append(@, p)]
    [] OTHER -> ap

RECURSIVE ScanFrom(_, _)
ScanFrom(ap, ps) ==
  IF ps = <<>> THEN ap ELSE ScanFrom(Store(ap, Head(ps)), Tail(ps))

from_api_method(d) == ScanFrom(EmptyParams, d.params)

ScanRaises(d) == \E i \in 1..Len(d.params) : Classify(d.params[i]) = "raise"

\* ApiMethodParams.request: {**path, **query, **body}
RequestFields(ap) == ap.path \o ap.query \o ap.body

(***************************************************************************)
(* The outcome of decorating a method: the exception raised, or "" and the *)
(* wrapper's closure (method_params, return_type).                         *)
(***************************************************************************)
DecorateError(d) ==
  IF ~IsClass(ReturnHint(d)) THEN "TypeError"
  ELSE IF ~IsValidReturnType(ReturnHint(d)) THEN "ValueError"
  ELSE IF ScanRaises(d) THEN "NotImplementedError"
  ELSE ""


(***************************************************************************)
(* TypeAdapter: a compiled validator/serializer over one group's fields.   *)
(* NoAdapter stands for "nothing cached yet" and for Python's None.        *)
(***************************************************************************)
TypeAdapter(name, fields, id) == [name |-> name, fields |-> fields, id |-> id]

NoAdapter == TypeAdapter("", <<>>, 0)

\* bool(x) of `if not self.path`, `if self.query`, ...: a TypeAdapter defines
\* neither __bool__ nor __len__, so only None is falsy
Truthy(a) == a # NoAdapter

Groups == {"request", "path", "query", "body", "header"}

\* the TypedDict each cached_property compiles (client.py lines 79-100)
AdapterName(g) ==
  CASE g = "request" -> "RequestParams"
    [] g = "header" -> "HeaderParams"
    [] g = "query" -> "QueryParams"
    [] g = "body" -> "BodyParams"
    [] g = "path" -> "PathParams"

GroupFields(ap, g) ==
  CASE g = "request" -> RequestFields(ap)
    [] g = "header" -> ap.header
    [] g = "query" -> ap.query
    [] g = "body" -> ap.body
    [] g = "path" -> ap.path

(***************************************************************************)
(* TypeAdapter.validate_python over a TypedDict: every field is required,  *)
(* type-checked and constraint-checked; keys that are no field are         *)
(* ignored; the result lists the fields in the TypedDict's order.          *)
(* (Callers here pass no numeric strings, so lax coercion never applies.)  *)
(***************************************************************************)
TypeOk(p, v) ==
  CASE p.ty = "int" -> v.ty = "int"
    [] p.ty = "str" -> v.ty = "str"
    [] OTHER -> v.ty = "model" /\ v.s = p.ty

\* a validator that compiles no constraint
ConstraintIgnored(p, v) == TRUE

ConstraintOk(p, v) == p.gt => v.n > 0

FieldOk(p, kw) ==
  /\ Has(kw, p.name)
  /\ TypeOk(p, Get(kw, p.name))
  /\ ConstraintOk(p, Get(kw, p.name))

RECURSIVE Validated(_, _)
Validated(fields, kw) ==
  IF fields = <<>> THEN <<>>
  ELSE <<Pair(Head(fields).name, Get(kw, Head(fields).name))>>
         \o Validated(Tail(fields), kw)

validate_python(adapter, kw) ==
  IF \A i \in 1..Len(adapter.fields) : FieldOk(adapter.fields[i], kw)
    THEN [ok |-> TRUE, value |-> Validated(adapter.fields, kw)]
    ELSE [ok |-> FALSE, value |-> <<>>]

(***************************************************************************)
(* TypeAdapter.dump_python over a TypedDict: walks the mapping's items in  *)
(* their order, emits those that are fields (under the serialization alias *)
(* when by_alias is set and the field has one) and skips the others; a     *)
(* field the mapping lacks is simply not emitted.                          *)
(***************************************************************************)
RECURSIVE FieldNamed(_, _)
FieldNamed(fields, k) ==
  IF fields = <<>> THEN Param("", "", FALSE, "none", "")
  ELSE IF Head(fields).name = k THEN Head(fields) ELSE FieldNamed(Tail(fields), k)

\* a serializer that never looks at the alias
SerializedKeyByName(p, by_alias) == p.name

SerializedKey(p, by_alias) ==
  IF by_alias /\ p.alias # "" THEN p.alias ELSE p.name

\* a serializer that also emits the keys that are no field of its TypedDict
RECURSIVE dump_python_with_extras(_, _, _)
dump_python_with_extras(adapter, m, by_alias) ==
  IF m = <<>> THEN <<>>
  ELSE LET p == FieldNamed(adapter.fields, Head(m).k)
       IN <<Pair(IF p.name = Head(m).k THEN SerializedKey(p, by_alias) ELSE Head(m).k,
                 Head(m).v)>>
          \o dump_python_with_extras(adapter, Tail(m), by_alias)

RECURSIVE dump_python(_, _, _)
dump_python(adapter, m, by_alias) ==
  IF m = <<>> THEN <<>>
  ELSE LET p == FieldNamed(adapter.fields, Head(m).k)
       IN (IF p.name = Head(m).k
             THEN <<Pair(SerializedKey(p, by_alias), Head(m).v)>>
             ELSE <<>>)
          \o dump_python(adapter, Tail(m), by_alias)

(***************************************************************************)
(* str(v), as str.format and httpx render a value, character by character. *)
(***************************************************************************)
Digit(n) ==
  CASE n = 0 -> "0" [] n = 1 -> "1" [] n = 2 -> "2" [] n = 3 -> "3"
    [] n = 4 -> "4" [] n = 5 -> "5" [] n = 6 -> "6" [] n = 7 -> "7"
    [] n = 8 -> "8" [] n = 9 -> "9"

RECURSIVE IntToStr(_)
IntToStr(n) ==
  IF n < 0 THEN <<"-">> \o IntToStr(0 - n)
  ELSE IF n < 10 THEN <<Digit(n)>>
  ELSE IntToStr(n \div 10) \o <<Digit(n % 10)>>

ToStr(v) ==
  CASE v.ty = "int" -> IntToStr(v.n)
    [] v.ty = "str" -> <<v.s>>
    [] OTHER -> <<v.s, "(...)">>

RECURSIVE Lits(_)
Lits(ss) == IF ss = <<>> THEN <<>> ELSE <<Lit(Head(ss))>> \o Lits(Tail(ss))

(***************************************************************************)
(* url.format over a mapping: every {name} is replaced by                  *)
(* str(mapping[name]);                                                     *)
(* a name the mapping lacks raises KeyError.                               *)
(***************************************************************************)
FormatOk(url, m) ==
  \A i \in 1..Len(url) : url[i].t = "ph" => Has(m, url[i].s)

RECURSIVE Format(_, _)
Format(url, m) ==
  IF url = <<>> THEN <<>>
  ELSE (IF Head(url).t = "ph" THEN Lits(ToStr(Get(m, Head(url).s)))
        ELSE <<Head(url)>>)
       \o Format(Tail(url), m)

(***************************************************************************)
(* httpx.Request(params=...): the query string key=value&key=value.        *)
(***************************************************************************)
RECURSIVE QueryString(_)
QueryString(m) ==
  IF m = <<>> THEN <<>>
  ELSE <<Head(m).k, "=">> \o ToStr(Head(m).v)
       \o (IF Tail(m) = <<>> THEN <<>> ELSE <<"&">> \o QueryString(Tail(m)))

(***************************************************************************)
(* TypeAdapter.dump_json: the JSON text, as tokens.                        *)
(***************************************************************************)
Punct(s) == [t |-> "punct", s |-> s, n |-> 0]
JString(s) == [t |-> "string", s |-> s, n |-> 0]
JNumber(n) == [t |-> "number", s |-> "", n |-> n]

\* the fields of the request models of client_test.py (lines 22-29); k picks
\* one of the instances a caller may hold
ModelFields(v) ==
  IF v.s = "CreatePostRequest"
    THEN <<Pair("title", StrV("How to create a great API client?")),
           Pair("body", StrV("Just reuse existing code."))>>
    ELSE <<Pair("user_id", IntV(v.n)),
           Pair("body", StrV("What a bloated mess!"))>>

RECURSIVE ToJson(_)
RECURSIVE JsonMembers(_)
JsonMembers(m) ==
  IF m = <<>> THEN <<>>
  ELSE <<JString(Head(m).k), Punct(":")>> \o ToJson(Head(m).v)
       \o (IF Tail(m) = <<>> THEN <<>> ELSE <<Punct(",")>> \o JsonMembers(Tail(m)))

ToJson(v) ==
  CASE v.ty = "int" -> <<JNumber(v.n)>>
    [] v.ty = "str" -> <<JString(v.s)>>
    [] OTHER -> <<Punct("{")>> \o JsonMembers(ModelFields(v)) \o <<Punct("}")>>

dump_json(adapter, m, by_alias) ==
  <<Punct("{")>> \o JsonMembers(dump_python(adapter, m, by_alias)) \o <<Punct("}")>>

\* bytes | None
Bytes(tokens) == [present |-> TRUE, bytes |-> tokens]
NoBytes == [present |-> FALSE, bytes |-> <<>>]

(***************************************************************************)
(* The builders of ApiMethodTypeAdapters, each given the adapter that the  *)
(* cached_property handed out.                                             *)
(***************************************************************************)
\* a builder that takes the empty-group shortcut for every group
build_request_url_unformatted(path, url, kwargs) == [ok |-> TRUE, url |-> url]

\* _build_request_url; ok is FALSE when format raises KeyError
build_request_url(path, url, kwargs) ==
  IF ~Truthy(path) THEN [ok |-> TRUE, url |-> url]
  ELSE IF FormatOk(url, dump_python(path, kwargs, FALSE))
    THEN [ok |-> TRUE, url |-> Format(url, dump_python(path, kwargs, FALSE))]
    ELSE [ok |-> FALSE, url |-> <<>>]

\* _build_query_params, as the query string httpx.Request makes of it
build_query_params(query, kwargs) ==
  IF Truthy(query) THEN QueryString(dump_python(query, kwargs, TRUE)) ELSE <<>>

\* _build_request_content
build_request_content(body, kwargs) ==
  IF ~Truthy(body) THEN NoBytes ELSE Bytes(dump_json(body, kwargs, TRUE))

RECURSIVE Merge(_, _)
Merge(base, extra) ==
  IF extra = <<>> THEN base
  ELSE Merge(IF Has(base, Head(extra).k)
               THEN [i \in 1..Len(base) |->
                       IF base[i].k = Head(extra).k THEN Head(extra) ELSE base[i]]
               ELSE Append(base, Head(extra)),
             Tail(extra))

DefaultHeaders == <<Pair("Content-Type", StrV("application/json"))>>

\* _build_request_headers and the dict display of build_request; ok is FALSE
\* when the dict display unpacks None (TypeError)
build_request_headers(header, kwargs) ==
  IF Truthy(header)
    THEN [ok |-> TRUE, headers |-> Merge(DefaultHeaders, dump_python(header, kwargs, FALSE))]
    ELSE [ok |-> FALSE, headers |-> <<>>]

(***************************************************************************)
(* The transport's responses and the decoding of the wrapper.              *)
(***************************************************************************)
StatusCodes == {200, 404, 500}
Bodies == {"post_json", "other_json", "not_json"}

Response(id, status, body) == [id |-> id, status |-> status, body |-> body]
NoResponse == Response(0, 0, "")

\* a status check that lets client errors through
RaisesForServerError(r) == r.status >= 500

\* response.raise_for_status() raises HTTPStatusError
RaisesForStatus(r) == r.status >= 400

\* a wrapper whose mapping branch also takes the raw response
DecodeStepJsonElse(rt) ==
  IF IsSubclass(rt, "BaseModel") THEN "model_validate_json" ELSE "json"

\* the branch of the wrapper's if/elif/else that the return type selects
DecodeStep(rt) ==
  IF IsSubclass(rt, "BaseModel") THEN "model_validate_json"
  ELSE IF IsSubclass(rt, "dict") THEN "json"
  ELSE "passthrough"

\* the exception the selected branch raises on this body, "" when none
DecodeError(step, r) ==
  CASE step = "model_validate_json" /\ r.body # "post_json" -> "ValidationError"
    [] step = "json" /\ r.body = "not_json" -> "JSONDecodeError"
    [] OTHER -> ""

Result(kind, r) == [kind |-> kind, of |-> r]
NoResult == Result("none", NoResponse)

DecodeValue(step, r) ==
  CASE step = "model_validate_json" -> Result("model", r)
    [] step = "json" -> Result("mapping", r)
    [] OTHER -> Result("response", r)

(***************************************************************************)
(* The arguments a caller may pass: every declared parameter is omitted or *)
(* given one of a few values, some of the right type, some not (the valid  *)
(* integers are those of client_test.py: 42 in a query, 123 in a path).    *)
(***************************************************************************)
Candidates(p) ==
  CASE p.ty = "int" ->
         {IF p.marker = "Query" THEN IntV(42) ELSE IntV(123), IntV(0 - 1), StrV("abc")}
    [] p.ty = "str" -> {StrV("secret"), IntV(42)}
    [] p.ty = "CreatePostRequest" ->
         {ModelV("CreatePostRequest", 1), ModelV("CreateCommentRequest", 1)}
    [] OTHER -> {ModelV(p.ty, 1), ModelV("CreatePostRequest", 1)}

RECURSIVE KwargsFor(_)
KwargsFor(ps) ==
  IF ps = <<>> THEN {<<>>}
  ELSE LET rest == KwargsFor(Tail(ps))
       IN rest \cup {<<Pair(Head(ps).name, v)>> \o r :
                       v \in Candidates(Head(ps)), r \in rest}

(***************************************************************************)
(* State.                                                                  *)
(***************************************************************************)
Threads == {"t1", "t2"}

MaxCalls == 2

Request(method, url, params, content, headers) ==
  [method |-> method, url |-> url, params |-> params, content |-> content,
   headers |-> headers]

NoRequest == Request("", <<>>, <<>>, NoBytes, <<>>)

\* one call of the wrapper: its position, its locals, what it raised or
\* returned, how often it invoked the transport's send, and its position
\* inside cached_property.__get__
Frame(kw) ==
  [pc |-> "validate", kwargs |-> kw, validated |-> <<>>, req |-> NoRequest,
   response |-> NoResponse, result |-> NoResult, decoded |-> "", err |-> "",
   errAt |-> "", sends |-> 0, missed |-> FALSE, held |-> NoAdapter]

Idle == [Frame(<<>>) EXCEPT !.pc = "idle"]

VARIABLES
  endpoint,       \* the method declaration under the decorator
  wrapper,        \* "undefined", "installed" or "failed" (decoration raised)
  decoErr,        \* the exception decoration raised, "" when none
  method_params,  \* closure of the wrapper: ApiMethodParams
  return_type,    \* closure of the wrapper: the return type hint
  cache,          \* type_adapters.__dict__: group -> cached adapter
  built,          \* how many adapters were constructed, per group
  property_lock,  \* whether functools.cached_property holds a lock
  workers,        \* the threads of the caller that issue calls
  th,             \* thread -> its call of the wrapper
  calls,          \* calls started
  nsent           \* responses the transport has produced

vars ==
  <<endpoint, wrapper, decoErr, method_params, return_type, cache, built,
    property_lock, workers, th, calls, nsent>>

InitCommon ==
  /\ endpoint = NoEndpoint
  /\ wrapper = "undefined"
  /\ decoErr = ""
  /\ method_params = EmptyParams
  /\ return_type = "None"
  /\ cache = [g \in Groups |-> NoAdapter]
  /\ built = [g \in Groups |-> 0]
  /\ property_lock \in BOOLEAN
  /\ th = [t \in Threads |-> Idle]
  /\ calls = 0
  /\ nsent = 0

\* a caller that uses the client from one thread
Init == InitCommon /\ workers = {"t1"}

\* a caller that uses the client from every thread
InitThreaded == InitCommon /\ workers = Threads

(***************************************************************************)
(* api_call.decorator (client.py lines 140-166).                           *)
(***************************************************************************)
Decorate(d) ==
  /\ wrapper = "undefined"
  /\ endpoint' = d
  /\ decoErr' = DecorateError(d)
  /\ IF DecorateError(d) = ""
       THEN /\ wrapper' = "installed"
            /\ method_params' = from_api_method(d)
            /\ return_type' = ReturnHint(d)
       ELSE /\ wrapper' = "failed"
            /\ UNCHANGED <<method_params, return_type>>
  /\ UNCHANGED <<cache, built, property_lock, workers, th, calls, nsent>>

(***************************************************************************)
(* functools.cached_property.__get__: look the attribute up; on a miss     *)
(* call the function and store what it returns.  Up to Python 3.11 the     *)
(* miss path runs under a lock and looks again before calling; from 3.12   *)
(* on there is no lock.                                                    *)
(***************************************************************************)
Stages ==
  {"validate", "build_url", "build_query", "build_content", "build_headers"}

StageGroup(pc) ==
  CASE pc = "validate" -> "request"
    [] pc = "build_url" -> "path"
    [] pc = "build_query" -> "query"
    [] pc = "build_content" -> "body"
    [] pc = "build_headers" -> "header"

Ready(t) ==
  /\ th[t].pc \in Stages
  /\ \/ th[t].held # NoAdapter
     \/ ~th[t].missed /\ cache[StageGroup(th[t].pc)] # NoAdapter

AdapterFor(t) ==
  IF th[t].held # NoAdapter THEN th[t].held ELSE cache[StageGroup(th[t].pc)]

CacheMiss(t) ==
  /\ th[t].pc \in Stages
  /\ ~th[t].missed
  /\ th[t].held = NoAdapter
  /\ cache[StageGroup(th[t].pc)] = NoAdapter
  /\ th' = [th EXCEPT ![t].missed = TRUE]
  /\ UNCHANGED <<endpoint, wrapper, decoErr, method_params, return_type, cache,
                 built, property_lock, workers, calls, nsent>>

Construct(t) ==
  LET g == StageGroup(th[t].pc)
      new == TypeAdapter(AdapterName(g), GroupFields(method_params, g), built[g] + 1)
  IN /\ th[t].pc \in Stages
     /\ th[t].missed
     /\ IF property_lock /\ cache[g] # NoAdapter
          THEN /\ th' = [th EXCEPT ![t].missed = FALSE, ![t].held = cache[g]]
               /\ UNCHANGED <<cache, built>>
          ELSE /\ th' = [th EXCEPT ![t].missed = FALSE, ![t].held = new]
               /\ cache' = [cache EXCEPT ![g] = new]
               /\ built' = [built EXCEPT ![g] = @ + 1]
     /\ UNCHANGED <<endpoint, wrapper, decoErr, method_params, return_type,
                    property_lock, workers, calls, nsent>>

(***************************************************************************)
(* api_call.decorator.wrapper (client.py lines 153-164), step by step.     *)
(***************************************************************************)
Shared ==
  <<endpoint, wrapper, decoErr, method_params, return_type, cache, built,
    property_lock, workers>>

Raise(f, exc) ==
  [f EXCEPT !.pc = "raised", !.err = exc, !.errAt = f.pc, !.held = NoAdapter]

Call(t, kw) ==
  /\ wrapper = "installed"
  /\ t \in workers
  /\ th[t].pc \in {"idle", "returned", "raised"}
  /\ calls < MaxCalls
  /\ th' = [th EXCEPT ![t] = Frame(kw)]
  /\ calls' = calls + 1
  /\ UNCHANGED <<Shared, nsent>>

\* line 154: type_adapters.validate_request_params(kwargs)
Validate(t) ==
  /\ th[t].pc = "validate"
  /\ Ready(t)
  /\ LET r == validate_python(AdapterFor(t), th[t].kwargs)
     IN th' = [th EXCEPT ![t] =
                 IF r.ok
                   THEN [@ EXCEPT !.pc = "build_url", !.validated = r.value,
                                  !.held = NoAdapter]
                   ELSE Raise(@, "ValidationError")]
  /\ UNCHANGED <<Shared, calls, nsent>>

\* line 125: url=self._build_request_url(url, kwargs)
BuildUrl(t) ==
  /\ th[t].pc = "build_url"
  /\ Ready(t)
  /\ LET r == build_request_url(AdapterFor(t), endpoint.url, th[t].validated)
     IN th' = [th EXCEPT ![t] =
                 IF r.ok
                   THEN [@ EXCEPT !.pc = "build_query", !.held = NoAdapter,
                                  !.req.method = endpoint.method,
                                  !.req.url = r.url]
                   ELSE Raise(@, "KeyError")]
  /\ UNCHANGED <<Shared, calls, nsent>>

\* line 126: params=self._build_query_params(kwargs)
BuildQuery(t) ==
  /\ th[t].pc = "build_query"
  /\ Ready(t)
  /\ th' = [th EXCEPT ![t].pc = "build_content", ![t].held = NoAdapter,
                      ![t].req.params =
                         build_query_params(AdapterFor(t), th[t].validated)]
  /\ UNCHANGED <<Shared, calls, nsent>>

\* line 127: content=self._build_request_content(kwargs)
BuildContent(t) ==
  /\ th[t].pc = "build_content"
  /\ Ready(t)
  /\ th' = [th EXCEPT ![t].pc = "build_headers", ![t].held = NoAdapter,
                      ![t].req.content =
                         build_request_content(AdapterFor(t), th[t].validated)]
  /\ UNCHANGED <<Shared, calls, nsent>>

\* lines 129-132: the headers, which complete the httpx.Request
BuildHeaders(t) ==
  /\ th[t].pc = "build_headers"
  /\ Ready(t)
  /\ LET r == build_request_headers(AdapterFor(t), th[t].validated)
     IN th' = [th EXCEPT ![t] =
                 IF r.ok
                   THEN [@ EXCEPT !.pc = "send", !.held = NoAdapter,
                                  !.req.headers = r.headers]
                   ELSE Raise(@, "TypeError")]
  /\ UNCHANGED <<Shared, calls, nsent>>

\* line 156: self._adapter.send(request) returns a response
Send(t, status, body) ==
  /\ th[t].pc = "send"
  /\ th' = [th EXCEPT ![t].pc = "check", ![t].sends = @ + 1,
                      ![t].response = Response(nsent + 1, status, body)]
  /\ nsent' = nsent + 1
  /\ UNCHANGED <<Shared, calls>>

\* line 156: self._adapter.send(request) fails to connect or send
SendFails(t) ==
  /\ th[t].pc = "send"
  /\ th' = [th EXCEPT ![t] = [Raise(@, "TransportError") EXCEPT !.sends = @ + 1]]
  /\ UNCHANGED <<Shared, calls, nsent>>

\* line 157: response.raise_for_status()
Check(t) ==
  /\ th[t].pc = "check"
  /\ th' = [th EXCEPT ![t] =
              IF RaisesForStatus(@.response)
                THEN Raise(@, "HTTPStatusError")
                ELSE [@ EXCEPT !.pc = "decode"]]
  /\ UNCHANGED <<Shared, calls, nsent>>

\* lines 159-164: the branch the return type selects
Decode(t) ==
  /\ th[t].pc = "decode"
  /\ LET step == DecodeStep(return_type)
         exc == DecodeError(step, th[t].response)
     IN th' = [th EXCEPT ![t] =
                 IF exc # ""
                   THEN [Raise(@, exc) EXCEPT !.decoded = step]
                   ELSE [@ EXCEPT !.pc = "returned", !.decoded = step,
                                  !.result = DecodeValue(step, th[t].response)]]
  /\ UNCHANGED <<Shared, calls, nsent>>

Next ==
  \/ \E d \in Endpoints : Decorate(d)
  \/ \E t \in Threads : \E kw \in KwargsFor(endpoint.params) : Call(t, kw)
  \/ \E t \in Threads : CacheMiss(t)
  \/ \E t \in Threads : Construct(t)
  \/ \E t \in Threads : Validate(t)
  \/ \E t \in Threads : BuildUrl(t)
  \/ \E t \in Threads : BuildQuery(t)
  \/ \E t \in Threads : BuildContent(t)
  \/ \E t \in Threads : BuildHeaders(t)
  \/ \E t \in Threads : \E s \in StatusCodes : \E b \in Bodies : Send(t, s, b)
  \/ \E t \in Threads : SendFails(t)
  \/ \E t \in Threads : Check(t)
  \/ \E t \in Threads : Decode(t)

Spec == Init /\ [][Next]_vars

SpecThreaded == InitThreaded /\ [][Next]_vars

(***************************************************************************)
(* Properties.  What a claim calls bound, failing or expected is stated    *)
(* here from the declaration and the caller's arguments, not from the      *)
(* adapters.                                                               *)
(***************************************************************************)
Started(t) == th[t].pc # "idle"

Sent(t) == th[t].sends > 0

IsPathParam(p) == p.marker = "Path"
IsQueryParam(p) == p.marker = "Query"
IsHeaderParam(p) == p.marker = "Header"
\* explicitly marked Body, or a plain structured type with no metadata
IsBodyParam(p) == p.marker = "Body" \/ (p.marker = "none" /\ ~p.gt)

BoundParams == {endpoint.params[i] : i \in 1..Len(endpoint.params)}

FailsValidation(p, kw) ==
  \/ ~Has(kw, p.name)
  \/ p.ty = "int" /\ Get(kw, p.name).ty # "int"
  \/ p.ty = "str" /\ Get(kw, p.name).ty # "str"
  \/ p.ty \in ModelTypes /\ Get(kw, p.name) # ModelV(p.ty, Get(kw, p.name).n)
  \/ p.gt /\ Get(kw, p.name).ty = "int" /\ Get(kw, p.name).n <= 0

InvalidCall(t) ==
  \E p \in BoundParams :
    /\ IsPathParam(p) \/ IsQueryParam(p) \/ IsBodyParam(p)
    /\ FailsValidation(p, th[t].kwargs)

\* C1: a call whose keyword arguments fail validation for a path-, query- or
\* body-bound parameter raises the validation error from the VALIDATE step;
\* no request is built and the transport's send is invoked zero times.
C1_InvalidCallNeverSent ==
  \A t \in Threads :
    Started(t) /\ InvalidCall(t) =>
      /\ th[t].sends = 0
      /\ th[t].req = NoRequest
      /\ th[t].pc \in {"validate", "raised"}
      /\ th[t].pc = "raised" =>
           th[t].err = "ValidationError" /\ th[t].errAt = "validate"

C1_Witness ==
  \E t \in Threads :
    /\ endpoint = QueryParamsUsingKwargs
    /\ th[t].kwargs = <<Pair("qs_test_id", IntV(0 - 1))>>
    /\ th[t].pc = "raised"
    /\ th[t].err = "ValidationError"

FailureStatus(r) == r.status \in 400..599

\* C2: once the transport has returned a response with a failure status,
\* the call raises the HTTP-status error right after SEND: no DECODE step
\* (model parse, JSON parse, passthrough) runs and no value is returned,
\* whatever the declared return type.
C2_FailureStatusRaisesBeforeDecode ==
  \A t \in Threads :
    th[t].response # NoResponse /\ FailureStatus(th[t].response)
      /\ th[t].pc # "check" =>
        /\ th[t].pc = "raised"
        /\ th[t].err = "HTTPStatusError"
        /\ th[t].decoded = ""
        /\ th[t].result = NoResult

C2_Witness ==
  \E t \in Threads :
    /\ return_type = "Post"
    /\ th[t].response.status = 404
    /\ th[t].response.body = "post_json"
    /\ th[t].pc = "raised"

SupportedReturn(d) == d.ret \in {"Post", "dict", "Response"}

\* C3: decorating a method whose return annotation is absent or is not one
\* of the three supported shapes fails at decoration time with the
\* configuration error (the ValueError naming the supported types and the
\* one found), and no wrapper is produced.
C3_UnsupportedReturnIsConfigError ==
  wrapper # "undefined" /\ ~SupportedReturn(endpoint) =>
    wrapper = "failed" /\ decoErr = "ValueError"

OnlyPlaceholder(url, i) ==
  /\ url[i].t = "ph"
  /\ \A j \in 1..Len(url) : j # i => url[j].t = "lit"

\* C4: with a Path-bound parameter p and the placeholder {p} in the
\* template, the request that is sent has the template's path with the
\* placeholder replaced by the string form of the value passed for p, and no
\* placeholder is left in it; /posts/{post_id}/comments with post_id=123
\* gives /posts/123/comments.
C4_PathPlaceholderReplaced ==
  \A t \in Threads :
    Sent(t) =>
      /\ \A p \in BoundParams : \A i \in 1..Len(endpoint.url) :
           IsPathParam(p) /\ endpoint.url[i] = Ph(p.name)
             /\ OnlyPlaceholder(endpoint.url, i) =>
               th[t].req.url =
                 SubSeq(endpoint.url, 1, i - 1)
                   \o Lits(ToStr(Get(th[t].kwargs, p.name)))
                   \o SubSeq(endpoint.url, i + 1, Len(endpoint.url))
      /\ \A i \in 1..Len(th[t].req.url) : th[t].req.url[i].t = "lit"
      /\ endpoint = PathParamsUsingKwargs
           /\ th[t].kwargs = <<Pair("post_id", IntV(123))>> =>
             th[t].req.url =
               <<Lit("/posts/"), Lit("1"), Lit("2"), Lit("3"), Lit("/comments")>>

C4_Witness ==
  \E t \in Threads :
    /\ endpoint = PathParamsUsingKwargs
    /\ th[t].kwargs = <<Pair("post_id", IntV(123))>>
    /\ Sent(t)

\* C5: when the only declared parameter is Query-bound with a serialization
\* alias a, the request that is sent has the query string a=v and nothing
\* else; alias testID with value 42 gives testID=42.
C5_QueryUsesAlias ==
  \A t \in Threads :
    Sent(t) /\ Len(endpoint.params) = 1 /\ IsQueryParam(endpoint.params[1])
      /\ endpoint.params[1].alias # "" =>
        /\ th[t].req.params =
             <<endpoint.params[1].alias, "=">>
               \o ToStr(Get(th[t].kwargs, endpoint.params[1].name))
        /\ endpoint.params[1].alias = "testID"
             /\ th[t].kwargs = <<Pair(endpoint.params[1].name, IntV(42))>> =>
               th[t].req.params = <<"testID", "=", "4", "2">>

C5_Witness ==
  \E t \in Threads :
    /\ endpoint = QueryParamsUsingKwargs
    /\ th[t].kwargs = <<Pair("qs_test_id", IntV(42))>>
    /\ Sent(t)

(***************************************************************************)
(* Reading a JSON object back: its top-level members, each key with the    *)
(* tokens of its value.                                                    *)
(***************************************************************************)
RECURSIVE MembersFrom(_, _, _, _)
MembersFrom(toks, i, depth, acc) ==
  IF i > Len(toks) THEN acc
  ELSE LET tok == toks[i]
           grow == [acc EXCEPT ![Len(acc)].v = Append(@, tok)]
       IN IF depth = 0 THEN MembersFrom(toks, i + 1, 1, acc)
          ELSE IF depth = 1 /\ tok.t = "string" /\ i < Len(toks)
                    /\ toks[i + 1] = Punct(":")
                    /\ toks[i - 1] \in {Punct("{"), Punct(",")}
            THEN MembersFrom(toks, i + 2, 1, Append(acc, Pair(tok.s, <<>>)))
          ELSE IF depth = 1 /\ tok = Punct(",")
            THEN MembersFrom(toks, i + 1, 1, acc)
          ELSE IF depth = 1 /\ tok = Punct("}") THEN acc
          ELSE IF tok = Punct("{") THEN MembersFrom(toks, i + 1, depth + 1, grow)
          ELSE IF tok = Punct("}") THEN MembersFrom(toks, i + 1, depth - 1, grow)
          ELSE MembersFrom(toks, i + 1, depth, grow)

JsonMembersOf(content) == MembersFrom(content.bytes, 1, 0, <<>>)

WireNameOf(p) == IF p.alias # "" THEN p.alias ELSE p.name

BodyParamsDeclared == SelectSeq(endpoint.params, IsBodyParam)

EncodedByName(ps, kw) ==
  [i \in 1..Len(ps) |-> Pair(ps[i].name, ToJson(Get(kw, ps[i].name)))]

EncodedByWireName(ps, kw) ==
  [i \in 1..Len(ps) |-> Pair(WireNameOf(ps[i]), ToJson(Get(kw, ps[i].name)))]

HasBodyGroup == BodyParamsDeclared # <<>>

\* C6 as stated: with a non-empty body group, the request that is sent has a
\* JSON object as body whose top-level keys are exactly the body-group
\* parameter names, in declaration order, each with the JSON encoding of the
\* instance passed for it.
C6_BodyKeysAreParameterNames ==
  \A t \in Threads :
    Sent(t) /\ HasBodyGroup =>
      /\ th[t].req.content.present
      /\ JsonMembersOf(th[t].req.content)
           = EncodedByName(BodyParamsDeclared, th[t].kwargs)

\* C6 as amended: with a non-empty body group, the request that is sent has
\* a JSON object as body whose top-level keys are, in declaration order, the
\* body-group parameters' serialization aliases where the marker declares
\* one and their names otherwise, each with the JSON encoding of the
\* instance passed for it; path- and query-bound parameters are no keys.
C6_BodyKeysAreWireNames ==
  \A t \in Threads :
    Sent(t) /\ HasBodyGroup =>
      /\ th[t].req.content.present
      /\ JsonMembersOf(th[t].req.content)
           = EncodedByWireName(BodyParamsDeclared, th[t].kwargs)
      /\ \A p \in BoundParams :
           IsPathParam(p) \/ IsQueryParam(p) =>
             ~Has(JsonMembersOf(th[t].req.content), p.name)
      /\ endpoint = CreatePost =>
           th[t].req.content.bytes =
             <<Punct("{"), JString("post"), Punct(":"),
               Punct("{"), JString("title"), Punct(":"),
               JString("How to create a great API client?"), Punct(","),
               JString("body"), Punct(":"),
               JString("Just reuse existing code."), Punct("}"), Punct("}")>>

C6_Witness ==
  \E t \in Threads :
    /\ endpoint = AddComment
    /\ Sent(t)
    /\ Keys(JsonMembersOf(th[t].req.content)) = <<"commentData">>

\* C7: when the declared return type is the raw transport response and the
\* response has no failure status, the call returns the very response the
\* transport's send returned and attempts no JSON parsing, also when the
\* body is not valid JSON.
C7_RawResponsePassthrough ==
  \A t \in Threads :
    (/\ return_type = "Response"
     /\ th[t].response # NoResponse
     /\ ~FailureStatus(th[t].response)
     /\ th[t].pc \notin {"check", "decode"}) =>
      /\ th[t].pc = "returned"
      /\ th[t].err = ""
      /\ th[t].result = Result("response", th[t].response)
      /\ th[t].decoded \notin {"json", "model_validate_json"}

C7_Witness ==
  \E t \in Threads :
    /\ return_type = "Response"
    /\ th[t].pc = "returned"
    /\ th[t].response.body = "not_json"
    /\ th[t].result.of = th[t].response

\* C8: when the body group is empty, the request that is sent carries no
\* body: the request content is absent, not a serialized empty object.
C8_EmptyBodyGroupSendsNoBody ==
  \A t \in Threads :
    Sent(t) /\ ~HasBodyGroup => th[t].req.content = NoBytes

\* C9: with a Header-bound parameter h, a valid call with h = v sends a
\* request whose headers hold v under h's name, next to the default
\* Content-Type.
C9_HeaderValueReachesRequest ==
  \A t \in Threads : \A p \in BoundParams :
    Sent(t) /\ IsHeaderParam(p) /\ Has(th[t].kwargs, p.name) =>
      /\ Has(th[t].req.headers, WireNameOf(p))
      /\ Get(th[t].req.headers, WireNameOf(p)) = Get(th[t].kwargs, p.name)

\* C10: every adapter group is constructed at most once over the method's
\* lifetime, for any number of calls from any threads, and every call holds
\* the one cached instance.
C10_AdaptersBuiltAtMostOnce ==
  /\ \A g \in Groups : built[g] <= 1
  /\ \A t \in Threads :
       th[t].held # NoAdapter => th[t].held = cache[StageGroup(th[t].pc)]
====
